---- MODULE Spec2Model ----
(***************************************************************************)
(* A model of helm-template's post-render pipeline (src/main.go):          *)
(*   - vals / mergeValues : merging of the values files, on a heap of Go   *)
(*     map objects so that sharing between trees is visible;               *)
(*   - sortManifests      : classification of the rendered documents;      *)
(*   - sortByKind         : the kind sorter, through sort.Sort;            *)
(*   - run                : the driver that prints the sorted manifests.   *)
(***************************************************************************)
EXTENDS Integers, Sequences, FiniteSets, TLC

VARIABLES
    \* ---- vals() ----
    heap,       \* the Go heap: a sequence of map objects, address = index
    base,       \* address of the map held by the local variable base
    curMaps,    \* addresses of the currentMap of every file merged so far
    parsed,     \* history: the tree each file decoded to, as decoded
    prevBase,   \* history: the value of base before the last merge
    vpc,        \* position in vals(): "loop", "done"
    \* ---- merge precedence (mergeValues as a function of values) ----
    mBase, mA, mB, mLeft, mRight, mpc,
    \* ---- sortByKind ----
    ksIn, ksOrder, ksOut, kpc,
    \* ---- run() and sortManifests() ----
    files,      \* out: the rendered documents, name -> content
    showNotes,  \* the --notes flag
    todo,       \* names the range loop of sortManifests has not visited yet
    hs,         \* sortManifests: the hooks found so far
    generic,    \* sortManifests: the generic manifests found so far
    err,        \* the error sortManifests returns
    manifests,  \* the manifests sortManifests returns
    printed,    \* what run has written to standard output
    runErr,     \* the error run returns
    pc,         \* "classify", "returned" (from sortManifests), "done"
    runNo,      \* 1, or 2 when the program is run again on the same input
    first       \* outcome of the first run, once it is run again

mergeVars == <<heap, base, curMaps, parsed, prevBase, vpc>>
assocVars == <<mBase, mA, mB, mLeft, mRight, mpc>>
sortVars  == <<ksIn, ksOrder, ksOut, kpc>>
runVars   == <<files, showNotes, todo, hs, generic, err, manifests, printed, runErr, pc,
               runNo, first>>
vars == <<mergeVars, assocVars, sortVars, runVars>>

-----------------------------------------------------------------------------
(* Bounds *)
MaxNodes == 2       \* entries (keys at any depth) in one decoded values tree
MaxFiles == 2       \* values files given with -f
MaxLen   == 7       \* manifests handed to sortByKind on its own
MaxDocs  == 3       \* documents the template engine renders

Keys  == {"a", "b"}
Atoms == {1}        \* a value that is no map: a scalar or a sequence

-----------------------------------------------------------------------------
(* Configuration trees as values: map[string]interface{} up to structural  *)
(* equality.                                                               *)
EmptyTree == [k \in {} |-> 0]
AtomNode(n) == [isMap |-> FALSE, atom |-> n, sub |-> EmptyTree]
MapNode(t)  == [isMap |-> TRUE, atom |-> 0, sub |-> t]

RECURSIVE TreeSizeOver(_, _)
TreeSizeOver(t, ks) ==
    IF ks = {} THEN 0
    ELSE LET k == CHOOSE x \in ks : TRUE
         IN  1 + (IF t[k].isMap THEN TreeSizeOver(t[k].sub, DOMAIN t[k].sub) ELSE 0)
               + TreeSizeOver(t, ks \ {k})
TreeSize(t) == TreeSizeOver(t, DOMAIN t)

RECURSIVE TreesUpTo(_)
TreesUpTo(n) ==
    IF n = 0 THEN {EmptyTree}
    ELSE LET nodes == {AtomNode(x) : x \in Atoms} \cup {MapNode(t) : t \in TreesUpTo(n - 1)}
         IN  {f \in UNION {[S -> nodes] : S \in SUBSET Keys} : TreeSize(f) <= n}

Trees == TreesUpTo(MaxNodes)

-----------------------------------------------------------------------------
(* The heap: every Go map is an object with an address; a cell of a map    *)
(* holds an atom or the address of another map.                            *)
AtomCell(n) == [isMap |-> FALSE, val |-> n]
MapCell(a)  == [isMap |-> TRUE, val |-> a]

\* yaml.Unmarshal(bytes, &currentMap): decodes into freshly allocated maps.
RECURSIVE Unmarshal(_, _), UnmarshalKeys(_, _, _, _)
UnmarshalKeys(h, t, ks, obj) ==
    IF ks = {} THEN [heap |-> h, obj |-> obj]
    ELSE LET k == CHOOSE x \in ks : TRUE
         IN  IF t[k].isMap
             THEN LET c == Unmarshal(h, t[k].sub)
                  IN  UnmarshalKeys(c.heap, t, ks \ {k}, (k :> MapCell(c.addr)) @@ obj)
             ELSE UnmarshalKeys(h, t, ks \ {k}, (k :> AtomCell(t[k].atom)) @@ obj)
Unmarshal(h, t) ==
    LET r == UnmarshalKeys(h, t, DOMAIN t, EmptyTree)
    IN  [heap |-> Append(r.heap, r.obj), addr |-> Len(r.heap) + 1]

\* The structural value of the map at address a.
RECURSIVE Read(_, _)
Read(h, a) ==
    [k \in DOMAIN h[a] |->
        IF h[a][k].isMap THEN MapNode(Read(h, h[a][k].val)) ELSE AtomNode(h[a][k].val)]

\* dest[k] = c
Store(h, a, k, c) == [h EXCEPT ![a] = (k :> c) @@ h[a]]

\* The order in which `range src` visits the keys is unspecified in Go.
RangeOrders == {"asc", "desc"}
KeyRank(k) == IF k = "a" THEN 1 ELSE 2
NextKey(ks, ord) ==
    IF ord = "asc" THEN CHOOSE k \in ks : \A o \in ks : KeyRank(k) <= KeyRank(o)
    ELSE CHOOSE k \in ks : \A o \in ks : KeyRank(k) >= KeyRank(o)

\* mergeValues(dest, src): returns the heap after the call; the returned map
\* is dest itself.  The second `!exists` test (lines 163 to 166) repeats the
\* first and is never taken.  A map of src is stored in dest as it is, not
\* copied.
RECURSIVE mergeValues(_, _, _, _), mergeRange(_, _, _, _, _)

\* mergeRange with the recursion of line 175 lost: a map over a map replaces it.
RECURSIVE mergeRangeShallow(_, _, _, _, _)
mergeRangeShallow(h, dest, src, ks, ord) ==
    IF ks = {} THEN h
    ELSE LET k == NextKey(ks, ord)
         IN  mergeRangeShallow(Store(h, dest, k, h[src][k]), dest, src, ks \ {k}, ord)

\* mergeRange with the assignment of line 153 lost: a key new to dest is skipped.
RECURSIVE mergeRangeSkipNew(_, _, _, _, _)
mergeRangeSkipNew(h, dest, src, ks, ord) ==
    IF ks = {} THEN h
    ELSE LET k == NextKey(ks, ord)
             v == h[src][k]
             h1 == IF k \notin DOMAIN h[dest] THEN h
                   ELSE IF ~v.isMap THEN Store(h, dest, k, v)
                   ELSE IF ~h[dest][k].isMap THEN Store(h, dest, k, v)
                   ELSE LET destMap == h[dest][k].val
                            h2 == mergeRangeSkipNew(h, destMap, v.val, DOMAIN h[v.val], ord)
                        IN  Store(h2, dest, k, MapCell(destMap))
         IN  mergeRangeSkipNew(h1, dest, src, ks \ {k}, ord)

mergeRange(h, dest, src, ks, ord) ==
    IF ks = {} THEN h
    ELSE LET k == NextKey(ks, ord)
             v == h[src][k]
             h1 == IF k \notin DOMAIN h[dest] THEN Store(h, dest, k, v)
                   ELSE IF ~v.isMap THEN Store(h, dest, k, v)
                   ELSE IF ~h[dest][k].isMap THEN Store(h, dest, k, v)
                   ELSE LET destMap == h[dest][k].val
                            h2 == mergeValues(h, destMap, v.val, ord)
                        IN  Store(h2, dest, k, MapCell(destMap))
         IN  mergeRange(h1, dest, src, ks \ {k}, ord)
mergeValues(h, dest, src, ord) == mergeRange(h, dest, src, DOMAIN h[src], ord)

-----------------------------------------------------------------------------
(* vals(): base starts as an empty map; every values file is decoded and   *)
(* merged into it in command-line order.                                   *)
IdleMerge == /\ heap = <<>> /\ base = 0 /\ curMaps = <<>> /\ parsed = <<>>
             /\ prevBase = EmptyTree /\ vpc = "idle"
IdleAssoc == /\ mBase = EmptyTree /\ mA = EmptyTree /\ mB = EmptyTree
             /\ mLeft = EmptyTree /\ mRight = EmptyTree /\ mpc = "idle"
IdleSort  == /\ ksIn = <<>> /\ ksOrder = <<>> /\ ksOut = <<>> /\ kpc = "idle"
IdleRun   == /\ files = <<>> /\ showNotes = FALSE /\ todo = {} /\ hs = <<>>
             /\ generic = <<>> /\ err = [type |-> "idle", name |-> <<>>]
             /\ manifests = <<>> /\ printed = <<>>
             /\ runErr = "idle" /\ pc = "idle" /\ runNo = 0
             /\ first = [err |-> [type |-> "idle", name |-> <<>>], manifests |-> <<>>]

InitVals ==
    /\ heap = <<EmptyTree>>
    /\ base = 1
    /\ curMaps = <<>>
    /\ parsed = <<>>
    /\ prevBase = EmptyTree
    /\ vpc = "loop"
    /\ IdleAssoc /\ IdleSort /\ IdleRun

\* One iteration of the loop over valsFiles.
MergeFile ==
    /\ vpc = "loop"
    /\ Len(curMaps) < MaxFiles
    /\ \E t \in Trees, ord \in RangeOrders :
         LET u == Unmarshal(heap, t)
         IN  /\ heap' = mergeValues(u.heap, base, u.addr, ord)
             /\ curMaps' = Append(curMaps, u.addr)
             /\ parsed' = Append(parsed, t)
             /\ prevBase' = Read(heap, base)
    /\ UNCHANGED <<base, vpc, assocVars, sortVars, runVars>>

\* The loop is over; base is marshalled and returned.
ValsReturn ==
    /\ vpc = "loop"
    /\ vpc' = "done"
    /\ UNCHANGED <<heap, base, curMaps, parsed, prevBase, assocVars, sortVars, runVars>>

NextVals == MergeFile \/ ValsReturn
SpecVals == InitVals /\ [][NextVals]_vars

-----------------------------------------------------------------------------
(* Two merges in the two groupings.  The three trees are decoded into fresh *)
(* maps; each grouping starts from that same heap, that is, from copies of  *)
(* its own.                                                                *)
Decoded(b, a, c) ==
    LET u1 == Unmarshal(<<>>, b)
        u2 == Unmarshal(u1.heap, a)
        u3 == Unmarshal(u2.heap, c)
    IN  [heap |-> u3.heap, base |-> u1.addr, A |-> u2.addr, B |-> u3.addr]

\* mergeValues(mergeValues(base, A), B)
MergeLeft(b, a, c, ord) ==
    LET d == Decoded(b, a, c)
        h1 == mergeValues(d.heap, d.base, d.A, ord)
    IN  Read(mergeValues(h1, d.base, d.B, ord), d.base)

\* mergeValues(base, mergeValues(A, B))
MergeRight(b, a, c, ord) ==
    LET d == Decoded(b, a, c)
        h1 == mergeValues(d.heap, d.A, d.B, ord)
    IN  Read(mergeValues(h1, d.base, d.A, ord), d.base)

InitAssoc ==
    /\ mBase \in Trees /\ mA \in Trees /\ mB \in Trees
    /\ mLeft = EmptyTree /\ mRight = EmptyTree
    /\ mpc = "start"
    /\ IdleMerge /\ IdleSort /\ IdleRun

\* Both groupings of the two merges, each from fresh copies.
EvalPrecedence ==
    /\ mpc = "start"
    /\ \E ord \in RangeOrders :
         /\ mLeft' = MergeLeft(mBase, mA, mB, ord)
         /\ mRight' = MergeRight(mBase, mA, mB, ord)
    /\ mpc' = "done"
    /\ UNCHANGED <<mBase, mA, mB, mergeVars, sortVars, runVars>>

NextAssoc == EvalPrecedence
SpecAssoc == InitAssoc /\ [][NextAssoc]_vars

-----------------------------------------------------------------------------
(* Claims about merging                                                    *)

\* The merge rule as the claim words it, key by key.
RECURSIVE MergeRule(_, _)
MergeRule(b, o) ==
    [k \in DOMAIN b \cup DOMAIN o |->
        IF k \notin DOMAIN o THEN b[k]
        ELSE IF k \notin DOMAIN b THEN o[k]
        ELSE IF ~o[k].isMap THEN o[k]
        ELSE IF ~b[k].isMap THEN o[k]
        ELSE MapNode(MergeRule(b[k].sub, o[k].sub))]

\* C1: mergeValues(base, override) holds, for every key, base's value when
\* the key is absent from override, override's value when the key is absent
\* from base or override's value is no map or base's value is no map, and the
\* recursive merge of the two subtrees when both values are maps.
C1_MergeByRule ==
    (vpc \in {"loop", "done"} /\ Len(parsed) > 0)
        => Read(heap, base) = MergeRule(prevBase, parsed[Len(parsed)])

C1_Witness ==
    /\ Len(parsed) = 2
    /\ prevBase = ("a" :> MapNode("a" :> AtomNode(1)))
    /\ parsed[2] = ("a" :> MapNode("b" :> AtomNode(1)))
    /\ Read(heap, base) = ("a" :> MapNode(("a" :> AtomNode(1)) @@ ("b" :> AtomNode(1))))

\* Some key path holds a map in b and in c and a non-map in a.
RECURSIVE AtomBetweenMaps(_, _, _)
AtomBetweenMaps(b, a, c) ==
    \E k \in DOMAIN b \cap DOMAIN a \cap DOMAIN c :
        /\ b[k].isMap /\ c[k].isMap
        /\ (~a[k].isMap \/ AtomBetweenMaps(b[k].sub, a[k].sub, c[k].sub))

\* C2 as claimed: merge(merge(base, A), B) = merge(base, merge(A, B)) for any
\* three trees.
C2_Associative == mpc = "done" => mLeft = mRight

\* C2 amended: merge(merge(base, A), B) = merge(base, merge(A, B)) whenever no
\* key path holds a map in base and in B but a non-map value in A.
C2_AssociativeUnlessAtomBetweenMaps ==
    (mpc = "done" /\ ~AtomBetweenMaps(mBase, mA, mB)) => mLeft = mRight

C2_Witness ==
    /\ mpc = "done"
    /\ mBase = ("a" :> AtomNode(1))
    /\ mA = ("a" :> MapNode("a" :> AtomNode(1)))
    /\ mB = ("a" :> MapNode("b" :> AtomNode(1)))
    /\ ~AtomBetweenMaps(mBase, mA, mB)
    /\ mLeft = ("a" :> MapNode(("a" :> AtomNode(1)) @@ ("b" :> AtomNode(1))))
    /\ mRight = mLeft

\* C9: after any sequence of merges into the accumulating tree, every
\* override tree still has the value it was decoded to.
C9_OverridesUnchanged ==
    \A i \in 1..Len(curMaps) : Read(heap, curMaps[i]) = parsed[i]

-----------------------------------------------------------------------------
(* The kind sorter                                                         *)

\* InstallOrder is the order in which manifests should be installed (by Kind).
InstallOrder ==
    << "Project", "Secret", "ConfigMap", "PersistentVolume", "PersistentVolumeClaim",
       "ServiceAccount", "ClusterRole", "ClusterRoleBinding", "Role", "RoleBinding",
       "ImageStream", "Service", "BuildConfig", "Pod", "ReplicationController",
       "Deployment", "DeploymentConfig", "DaemonSet", "Ingress", "Job" >>

\* newKindSorter: ordering[k] is the (0-based) index of k in the SortOrder; a
\* kind listed twice keeps its last index.
newKindSorter(s) ==
    [k \in {s[i] : i \in 1..Len(s)} |->
        (CHOOSE i \in 1..Len(s) : s[i] = k /\ \A j \in 1..Len(s) : s[j] = k => j <= i) - 1]

\* Less with the comparison of line 376 turned round.
LessReversed(ms, o, i, j) ==
    LET a == ms[i]
        b == ms[j]
    IN  IF a.head.Kind \notin DOMAIN o THEN FALSE
        ELSE IF b.head.Kind \notin DOMAIN o THEN TRUE
        ELSE o[a.head.Kind] > o[b.head.Kind]

\* kindSorter.Less(i, j) over the manifests ms and the ordering o.
Less(ms, o, i, j) ==
    LET a == ms[i]
        b == ms[j]
    IN  IF a.head.Kind \notin DOMAIN o THEN FALSE   \* Unknown is always last
        ELSE IF b.head.Kind \notin DOMAIN o THEN TRUE
        ELSE o[a.head.Kind] < o[b.head.Kind]

\* Swap that writes only one of the two slots.
SwapOneWay(ms, i, j) == [ms EXCEPT ![i] = ms[j]]

\* kindSorter.Swap(i, j)
Swap(ms, i, j) == [ms EXCEPT ![i] = ms[j], ![j] = ms[i]]

\* sort.Sort(ks) on at most 12 elements (indices from 1).  Both sorts of the
\* standard library end in the same insertion sort:
\*     for i := a + 1; i < b; i++ {
\*         for j := i; j > a && data.Less(j, j-1); j-- { data.Swap(j, j-1) } }
RECURSIVE insertInner(_, _, _), insertionSort(_, _, _)
insertInner(ms, o, j) ==
    IF j > 1 /\ Less(ms, o, j, j - 1) THEN insertInner(Swap(ms, j, j - 1), o, j - 1)
    ELSE ms
insertionSort(ms, o, i) ==
    IF i > Len(ms) THEN ms ELSE insertionSort(insertInner(ms, o, i), o, i + 1)

\* quickSort (Go 1.6 to 1.18) first makes one ShellSort pass with gap 6:
\*     for i := a + 6; i < b; i++ {
\*         if data.Less(i, i-6) { data.Swap(i, i-6) } }
RECURSIVE shellPass(_, _, _)
shellPass(ms, o, i) ==
    IF i > Len(ms) THEN ms
    ELSE shellPass(IF Less(ms, o, i, i - 6) THEN Swap(ms, i, i - 6) ELSE ms, o, i + 1)

\* The sort.Sort the program is built with: quickSort (Go 1.6 to 1.18) or
\* pdqsort (Go 1.19 and later), which sorts 12 elements or fewer by insertion.
Builds == {"quickSort", "pdqsort"}
SortSort(ms, o, build) ==
    IF build = "quickSort"
    THEN (IF Len(ms) > 1 THEN insertionSort(shellPass(ms, o, 7), o, 2) ELSE ms)
    ELSE insertionSort(ms, o, 2)

\* sortByKind does an in-place sort of manifests by Kind.
sortByKind(ms, ordering, build) == SortSort(ms, newKindSorter(ordering), build)

\* sortByKind on its own: any sequence of manifests, named by their position.
SortKinds == {"Secret", "ConfigMap", "Deployment", "Widget"}
ExampleOrder == <<"Secret", "ConfigMap", "Service", "Deployment">>
ReverseOrder == <<"Deployment", "Secret">>
SortOrders == {ExampleOrder, ReverseOrder}
ManifestsOf(f) == [i \in DOMAIN f |-> [name |-> i, head |-> [Kind |-> f[i]]]]
KindsOf(ms) == [i \in DOMAIN ms |-> ms[i].head.Kind]

InitSort ==
    /\ ksIn \in {ManifestsOf(f) : f \in UNION {[1..n -> SortKinds] : n \in 0..MaxLen}}
    /\ ksOrder \in SortOrders
    /\ ksOut = <<>>
    /\ kpc = "start"
    /\ IdleMerge /\ IdleAssoc /\ IdleRun

SortByKind ==
    /\ kpc = "start"
    /\ \E build \in Builds : ksOut' = sortByKind(ksIn, ksOrder, build)
    /\ kpc' = "done"
    /\ UNCHANGED <<ksIn, ksOrder, mergeVars, assocVars, runVars>>

NextSort == SortByKind
SpecSort == InitSort /\ [][NextSort]_vars

-----------------------------------------------------------------------------
(* Claims about the kind sorter                                            *)

Known(m, order) == \E i \in 1..Len(order) : order[i] = m.head.Kind
IndexIn(m, order) == CHOOSE i \in 1..Len(order) : order[i] = m.head.Kind
NoDuplicates(order) == \A i, j \in 1..Len(order) : order[i] = order[j] => i = j

\* C5: in the result of sortByKind every manifest of a kind in the SortOrder
\* comes before every manifest of a kind that is not in it, and along the
\* manifests of known kinds the SortOrder index never decreases.
C5_SortedByKind ==
    (kpc = "done" /\ NoDuplicates(ksOrder)) =>
        \A i, j \in 1..Len(ksOut) :
            (i < j /\ Known(ksOut[j], ksOrder)) =>
                /\ Known(ksOut[i], ksOrder)
                /\ IndexIn(ksOut[i], ksOrder) <= IndexIn(ksOut[j], ksOrder)

C5_Witness ==
    /\ kpc = "done"
    /\ ksOrder = ExampleOrder
    /\ KindsOf(ksIn) = <<"Deployment", "Secret", "Widget", "ConfigMap">>
    /\ KindsOf(ksOut) = <<"Secret", "ConfigMap", "Deployment", "Widget">>

PosOf(ms, n) == CHOOSE p \in 1..Len(ms) : ms[p].name = n
Tie(a, b, order) ==
    \/ a.head.Kind = b.head.Kind /\ Known(a, order)
    \/ ~Known(a, order) /\ ~Known(b, order)

\* C6: any two manifests that tie under the comparator (the same known kind,
\* or both of kinds absent from the SortOrder) come out of sortByKind in the
\* relative order they went in.
C6_Stable ==
    kpc = "done" =>
        \A i, j \in 1..Len(ksIn) :
            (i < j /\ Tie(ksIn[i], ksIn[j], ksOrder)) =>
                PosOf(ksOut, ksIn[i].name) < PosOf(ksOut, ksIn[j].name)

-----------------------------------------------------------------------------
(* The rendered documents.  A document's text is kept by what the program  *)
(* reads off it: whether it is blank, whether it decodes, and the head it  *)
(* decodes to.  An annotation value is kept as its comma-separated pieces. *)

HookAnno == "helm.sh/hook"              \* hooks.HookAnno
Apis == {"v1", "extensions/v1beta1"}    \* chartutil.DefaultVersionSet

\* var events: hook name -> release.Hook_Event
events ==
    [n \in {"pre-install", "post-install", "pre-delete", "post-delete", "pre-upgrade",
            "post-upgrade", "pre-rollback", "post-rollback", "release-test-success",
            "release-test-failure"} |->
        CASE n = "pre-install" -> "PRE_INSTALL"
          [] n = "post-install" -> "POST_INSTALL"
          [] n = "pre-delete" -> "PRE_DELETE"
          [] n = "post-delete" -> "POST_DELETE"
          [] n = "pre-upgrade" -> "PRE_UPGRADE"
          [] n = "post-upgrade" -> "POST_UPGRADE"
          [] n = "pre-rollback" -> "PRE_ROLLBACK"
          [] n = "post-rollback" -> "POST_ROLLBACK"
          [] n = "release-test-success" -> "RELEASE_TEST_SUCCESS"
          [] n = "release-test-failure" -> "RELEASE_TEST_FAILURE"]

\* strings.TrimSpace and strings.ToLower on the pieces that occur.
TrimSpace(str) ==
    CASE str = " Pre-Install" -> "Pre-Install"
      [] str = "post-install " -> "post-install"
      [] OTHER -> str
ToLower(str) ==
    CASE str = "Pre-Install" -> "pre-install"
      [] str = " Pre-Install" -> " pre-install"
      [] OTHER -> str

\* path.Base(n) of a name kept as its path segments, and
\* strings.HasPrefix(b, "_").
Base(n) == n[Len(n)]
HasUnderscorePrefix(b) == b \in {"_helpers.tpl"}

NamePool ==
    << <<"templates", "secret.yaml">>, <<"templates", "_helpers.tpl">>,
       <<"templates", "NOTES.txt">>, <<"templates", "deploy.yaml">> >>
Names == {NamePool[i] : i \in 1..MaxDocs}

NoAnnotations == [k \in {} |-> <<>>]
MetaNil == [isNil |-> TRUE, Name |-> "", Annotations |-> NoAnnotations]
Meta(name, ann) == [isNil |-> FALSE, Name |-> name, Annotations |-> ann]
SimpleHead(version, kind, meta) == [Version |-> version, Kind |-> kind, Metadata |-> meta]
NoHead == SimpleHead("", "", MetaNil)
Text(id, blank, yaml, head) == [text |-> id, blank |-> blank, yaml |-> yaml, head |-> head]

Contents ==
    { Text("  ", TRUE, TRUE, NoHead),
      Text("{{ broken", FALSE, FALSE, NoHead),
      Text("secret v9", FALSE, TRUE, SimpleHead("v9", "Secret", MetaNil)),
      Text("secret", FALSE, TRUE, SimpleHead("v1", "Secret", MetaNil)),
      Text("deployment", FALSE, TRUE,
           SimpleHead("extensions/v1beta1", "Deployment",
                Meta("web", "owner" :> <<"team-a">>))),
      Text("widget", FALSE, TRUE, SimpleHead("", "Widget", Meta("w", NoAnnotations))),
      Text("job hooks", FALSE, TRUE,
           SimpleHead("v1", "Job",
                Meta("migrate", HookAnno :>
                        <<" Pre-Install", "bogus", "post-install ", "pre-install">>))),
      Text("job bogus", FALSE, TRUE,
           SimpleHead("v1", "Job", Meta("bogus", HookAnno :> <<"bogus">>))) }

NoErr == [type |-> "nil", name |-> <<>>]
ParseError(n) == [type |-> "YAML parse error", name |-> n]
VersionError(n) == [type |-> "apiVersion not available", name |-> n]

-----------------------------------------------------------------------------
(* sortManifests                                                           *)

\* The loop over strings.Split(hookTypes, ",") that stops at the first known
\* hook name.
RECURSIVE hookLoopFirstOnly(_, _)
hookLoopFirstOnly(pieces, h) ==
    IF pieces = <<>> THEN h
    ELSE LET hookType == ToLower(TrimSpace(Head(pieces)))
         IN  IF hookType \in DOMAIN events
             THEN [isHook |-> TRUE, Events |-> Append(h.Events, events[hookType])]
             ELSE hookLoopFirstOnly(Tail(pieces), h)

\* The loop over strings.Split(hookTypes, ","): h carries isHook and h.Events.
RECURSIVE hookLoop(_, _)
hookLoop(pieces, h) ==
    IF pieces = <<>> THEN h
    ELSE LET hookType == ToLower(TrimSpace(Head(pieces)))
         IN  IF hookType \in DOMAIN events
             THEN hookLoop(Tail(pieces),
                           [isHook |-> TRUE, Events |-> Append(h.Events, events[hookType])])
             ELSE hookLoop(Tail(pieces), h)

\* The partial test with the base name taken from the wrong end of the path.
IsPartialOfDir(n) == HasUnderscorePrefix(n[1])

\* strings.HasPrefix(path.Base(n), "_")
IsPartial(n) == HasUnderscorePrefix(Base(n))

\* len(strings.TrimSpace(c)) == 0
IsBlank(c) == c.blank

\* The body of the range loop for the document n: the hooks, the generic
\* manifests and the error after it.
LoopBody(n, c, hooks, gen) ==
    LET sh == c.head
        keep == [hs |-> hooks, generic |-> gen, err |-> NoErr]
        asGeneric == [hs |-> hooks,
                      generic |-> Append(gen, [name |-> n, content |-> c.text, head |-> sh]),
                      err |-> NoErr]
    IN  IF IsPartial(n) THEN keep
        ELSE IF IsBlank(c) THEN keep
        ELSE IF ~c.yaml THEN [keep EXCEPT !.err = ParseError(n)]
        ELSE IF sh.Version # "" /\ sh.Version \notin Apis
             THEN [keep EXCEPT !.err = VersionError(n)]
        ELSE IF sh.Metadata.isNil \/ DOMAIN sh.Metadata.Annotations = {} THEN asGeneric
        ELSE IF HookAnno \notin DOMAIN sh.Metadata.Annotations THEN asGeneric
        ELSE LET h == hookLoop(sh.Metadata.Annotations[HookAnno],
                               [isHook |-> FALSE, Events |-> <<>>])
             IN  IF ~h.isHook THEN keep
                 ELSE [keep EXCEPT !.hs =
                         Append(hooks, [Name |-> sh.Metadata.Name, Kind |-> sh.Kind,
                                        Path |-> n, Manifest |-> c.text,
                                        Events |-> h.Events])]

InitRun ==
    /\ files \in [Names -> Contents]
    /\ showNotes \in BOOLEAN
    /\ todo = Names
    /\ hs = <<>>
    /\ generic = <<>>
    /\ err = NoErr
    /\ manifests = <<>>
    /\ printed = <<>>
    /\ runErr = "running"
    /\ pc = "classify"
    /\ runNo = 1
    /\ first = [err |-> NoErr, manifests |-> <<>>]
    /\ IdleMerge /\ IdleAssoc /\ IdleSort

\* One iteration of `for n, c := range files`; Go visits the entries of a map
\* in an unspecified order.  On an error sortManifests returns at once, with
\* the manifests gathered so far.
ClassifyDoc ==
    /\ pc = "classify"
    /\ \E n \in todo :
         LET r == LoopBody(n, files[n], hs, generic)
         IN  /\ hs' = r.hs
             /\ generic' = r.generic
             /\ err' = r.err
             /\ todo' = todo \ {n}
             /\ IF r.err # NoErr
                THEN pc' = "returned" /\ manifests' = r.generic
                ELSE UNCHANGED <<pc, manifests>>
    /\ UNCHANGED <<files, showNotes, printed, runErr, runNo, first,
                   mergeVars, assocVars, sortVars>>

\* return hs, sortByKind(generic, sort), nil
\* (the sort is in place; generic keeps the order of classification here, as
\* a record of what went into the sort)
SortReturn ==
    /\ pc = "classify"
    /\ todo = {}
    /\ \E build \in Builds : manifests' = sortByKind(generic, InstallOrder, build)
    /\ pc' = "returned"
    /\ UNCHANGED <<files, showNotes, todo, hs, generic, err, printed, runErr, runNo, first,
                   mergeVars, assocVars, sortVars>>

\* run, from the return of sortManifests: err is not looked at; the manifests
\* are printed and run returns nil.
Printable(m) ==
    LET b == Base(m.name)
    IN  /\ ~(~showNotes /\ b = "NOTES.txt")
        /\ ~HasUnderscorePrefix(b)
PrintManifests ==
    /\ pc = "returned"
    /\ printed' = [i \in DOMAIN SelectSeq(manifests, Printable) |->
                     [source |-> SelectSeq(manifests, Printable)[i].name,
                      text |-> SelectSeq(manifests, Printable)[i].content]]
    /\ runErr' = "nil"
    /\ pc' = "done"
    /\ UNCHANGED <<files, showNotes, todo, hs, generic, err, manifests, runNo, first,
                   mergeVars, assocVars, sortVars>>

Next == ClassifyDoc \/ SortReturn \/ PrintManifests
Spec == InitRun /\ [][Next]_vars

\* The program is run a second time on the same documents and flags.
RunAgain ==
    /\ pc = "done"
    /\ runNo = 1
    /\ first' = [err |-> err, manifests |-> manifests]
    /\ runNo' = 2
    /\ todo' = Names
    /\ hs' = <<>>
    /\ generic' = <<>>
    /\ err' = NoErr
    /\ manifests' = <<>>
    /\ printed' = <<>>
    /\ runErr' = "running"
    /\ pc' = "classify"
    /\ UNCHANGED <<files, showNotes, mergeVars, assocVars, sortVars>>

NextTwice == ClassifyDoc \/ SortReturn \/ PrintManifests \/ RunAgain
SpecTwice == InitRun /\ [][NextTwice]_vars

-----------------------------------------------------------------------------
(* Claims about classification and the driver                              *)

Succeeded == pc \in {"returned", "done"} /\ err = NoErr
Failed    == pc \in {"returned", "done"} /\ err # NoErr

\* The document is skipped: its last path segment begins with "_", or its
\* content is empty once trimmed.
SkippedDoc(n) == HasUnderscorePrefix(n[Len(n)]) \/ files[n].blank
\* The document decodes and its apiVersion is empty or recognized.
WellFormed(n) ==
    /\ files[n].yaml
    /\ files[n].head.Version = "" \/ files[n].head.Version \in Apis
CarriesHookKey(n) ==
    /\ ~files[n].head.Metadata.isNil
    /\ HookAnno \in DOMAIN files[n].head.Metadata.Annotations

HooksOf(n)     == {i \in 1..Len(hs) : hs[i].Path = n}
GenericOf(n)   == {i \in 1..Len(manifests) : manifests[i].name = n}

\* The events named by an annotation value, piece by piece.
IsHookName(x) == x \in DOMAIN events
EventsNamed(pieces) ==
    LET names == SelectSeq([i \in DOMAIN pieces |-> ToLower(TrimSpace(pieces[i]))], IsHookName)
    IN  [i \in DOMAIN names |-> events[names[i]]]

C4_OneBucketAtMost ==
    /\ Succeeded =>
         \A n \in Names :
            /\ Cardinality(HooksOf(n)) <= 1
            /\ Cardinality(GenericOf(n)) <= 1
            /\ ~(HooksOf(n) # {} /\ GenericOf(n) # {})
            /\ SkippedDoc(n) => (HooksOf(n) = {} /\ GenericOf(n) = {})
    /\ Failed => ~SkippedDoc(err.name)

C4_Witness ==
    /\ Succeeded
    /\ files[<<"templates", "_helpers.tpl">>].text = "{{ broken"
    /\ files[<<"templates", "NOTES.txt">>].text = "  "
    /\ files[<<"templates", "secret.yaml">>].text = "secret"
    /\ Len(manifests) = 1 /\ hs = <<>>

\* C7: when classification fails, no manifest header or text has been printed
\* by the time the run ends.  (The claim also has the run end as a failure;
\* run returns nil, see PrintManifests.)
C7_NoOutputOnFailure ==
    (pc = "done" /\ err # NoErr) => printed = <<>>

Occurrences(ms, m) == Cardinality({i \in 1..Len(ms) : ms[i] = m})

C10_Deterministic ==
    (runNo = 2 /\ pc \in {"returned", "done"}) =>
        (err = first.err /\ manifests = first.manifests)

====
